---- MODULE Spec2Model ----
(***************************************************************************)
(* Model of check_vcenter.py: the vCenter API session (authenticate, query *)
(* one inventory endpoint, invalidate the token), the three check routines *)
(* (vms, hosts, datastores), the severity combinator set_state and the     *)
(* plugin exit routine exit_plugin.                                        *)
(***************************************************************************)
EXTENDS Integers, Sequences, FiniteSets

VARIABLES
    mode,              \* args.mode
    debug,             \* args.debug / session.debug
    pc,                \* position of the single thread of control
    requests,          \* HTTP requests issued so far, in order
    resp,              \* outcome of the most recent request
    authtoken,         \* VCenterAPISession.__authtoken
    data,              \* decoded inventory listing returned by query_api_endpoint
    idx,               \* number of elements of data the for loop has consumed
    state,             \* running return state of check_hosts / check_datastores
    states,            \* check_vms: cumulative state dict
    power_state,       \* check_hosts: power summary dict
    connection_state,  \* check_hosts: connection summary dict
    output,            \* check_datastores: breaching datastores appended to output
    perfdata,          \* check_datastores: perfdata tokens appended so far
    stdout,            \* lines printed to standard output
    exitcode,          \* <<>> while running, <<n>> once the process has exited
    fault,             \* uncaught exception that ended the process, or "none"
    cargs,             \* set_state study: <<a, b, c>>
    inner,             \* set_state study: <<a*b, b*c, a*c>> once computed
    outer              \* set_state study: <<(a*b)*c, a*(b*c), b*(a*c)>> once computed

vars == <<mode, debug, pc, requests, resp, authtoken, data, idx, state, states,
          power_state, connection_state, output, perfdata, stdout, exitcode,
          fault, cargs, inner, outer>>

sessionVars == <<mode, debug, pc, requests, resp, authtoken, data, idx, state,
                 states, power_state, connection_state, output, perfdata,
                 stdout, exitcode, fault>>

foldVars == <<cargs, inner, outer>>

---------------------------------------------------------------------------
(* Bounds of the model *)

MaxItems == 2

---------------------------------------------------------------------------
(* Plugin return states *)

OK == 0
WARNING == 1
CRITICAL == 2
UNKNOWN == 3

Severity == {OK, WARNING, CRITICAL, UNKNOWN}

Modes == {"vms", "hosts", "datastores"}

(* HTTP status codes the server is taken to answer with *)
StatusCodes == {200, 201, 204, 400, 401, 403, 404, 500, 503}

AuthOkStatus == {200, 201}

(* variant: destroy also accepting 404 *)
DestroyOkStatusLax == {200, 201, 204, 404}

DestroyOkStatus == {200, 201, 204}

(* variant: query_api_endpoint not treating 503 as an error *)
QueryErrorStatusShort == {400, 401, 403, 500}

QueryErrorStatus == {400, 401, 403, 500, 503}

Responses ==
    {[err |-> TRUE, status |-> 0]} \cup {[err |-> FALSE, status |-> s] : s \in StatusCodes}

---------------------------------------------------------------------------
(* set_state(newstate, state) *)

set_state(newstate, cur) ==
    IF (newstate = 2) \/ (cur = 2) THEN 2
    ELSE IF (newstate = 1) /\ (cur \notin {2}) THEN 1
    ELSE IF (newstate = 3) /\ (cur \notin {1, 2}) THEN 3
    ELSE 0

---------------------------------------------------------------------------
(* exit_plugin(returncode, output, perfdata): the line it prints *)

LevelName(returncode) ==
    CASE returncode = 3 -> "UNKNOWN"
      [] returncode = 2 -> "CRITICAL"
      [] returncode = 1 -> "WARNING"
      [] returncode = 0 -> "OK"

StatusLine(returncode, out, perf) ==
    [kind |-> "status",
     level |-> LevelName(returncode),
     output |-> out,
     perfdata |-> IF returncode = 3 THEN <<>> ELSE perf]

exit_plugin(returncode, out, perf) ==
    /\ stdout' = Append(stdout, StatusLine(returncode, out, perf))
    /\ exitcode' = <<returncode>>
    /\ pc' = "done"

(* An exception nobody catches (req.json() on a body that is no JSON, the   *)
(* division by a capacity of 0): traceback on stderr, interpreter exit code *)
(* 1, nothing more on stdout                                                *)
Uncaught(exc) ==
    /\ fault' = exc
    /\ exitcode' = <<1>>
    /\ pc' = "crashed"

---------------------------------------------------------------------------
(* Inventory listings the server may answer with.  Every element carries   *)
(* the fields the check routines read; element i is named i.               *)

VmPowerStates == {"POWERED_ON", "POWERED_OFF", "SUSPENDED", "OTHER"}

HostPowerStates == {"POWERED_ON", "POWERED_OFF", "STANDBY", "OTHER"}

HostConnectionStates == {"CONNECTED", "DISCONNECTED", "NOT_RESPONDING", "OTHER"}

(* <<capacity, free_space>> pairs; none is an exact tie of round(x, 2) *)
DatastoreSizes ==
    {<<1000, 0>>, <<1000, 30>>, <<1000, 31>>, <<1000, 1000>>,
     <<100000, 3004>>, <<3, 1>>, <<0, 0>>}

VmItems(i) == {[name |-> i, power_state |-> p] : p \in VmPowerStates}

HostItems(i) ==
    {[name |-> i, connection_state |-> c, power_state |-> p] :
        c \in HostConnectionStates, p \in HostPowerStates}

DatastoreItems(i) ==
    {[name |-> i, capacity |-> z[1], free_space |-> z[2]] : z \in DatastoreSizes}

Items(m, i) ==
    CASE m = "vms" -> VmItems(i)
      [] m = "hosts" -> HostItems(i)
      [] m = "datastores" -> DatastoreItems(i)

RECURSIVE ListingsOfLen(_, _)
ListingsOfLen(m, n) ==
    IF n = 0 THEN {<<>>}
    ELSE {Append(l, e) : l \in ListingsOfLen(m, n - 1), e \in Items(m, n)}

Listings(m) == UNION {ListingsOfLen(m, n) : n \in 0..MaxItems}

(* json.dumps(data, indent=4): "[]" for the empty list, otherwise one line *)
(* per bracket, per brace and per field                                    *)
FieldCount(m) == IF m = "vms" THEN 2 ELSE 3

DumpLineCount(m, listing) ==
    IF Len(listing) = 0 THEN 1 ELSE 2 + Len(listing) * (FieldCount(m) + 2)

DumpLines(m, listing) == [i \in 1..DumpLineCount(m, listing) |-> [kind |-> "dump"]]

---------------------------------------------------------------------------
(* Initial state: the arguments are parsed, nothing has been requested *)

InitStates == [total |-> 0, on |-> 0, off |-> 0, suspended |-> 0]

InitPowerState ==
    [on |-> 0, off |-> 0, standby |-> 0,
     hosts_off_list |-> <<>>, hosts_standby_list |-> <<>>]

InitConnectionState ==
    [connected |-> 0, disconnected |-> 0, notresponding |-> 0,
     hosts_discon_list |-> <<>>, hosts_notresp_list |-> <<>>]

InitSession ==
    /\ pc = "session"
    /\ requests = <<>>
    /\ resp = [err |-> FALSE, status |-> 0]
    /\ authtoken = "unset"
    /\ data = <<>>
    /\ idx = 0
    /\ state = 0
    /\ states = InitStates
    /\ power_state = InitPowerState
    /\ connection_state = InitConnectionState
    /\ output = <<>>
    /\ perfdata = <<>>
    /\ stdout = <<>>
    /\ exitcode = <<>>
    /\ fault = "none"

Init ==
    /\ mode \in Modes
    /\ debug \in BOOLEAN
    /\ InitSession
    /\ cargs = <<OK, OK, OK>>
    /\ inner = <<>>
    /\ outer = <<>>

scanVars == <<idx, state, states, power_state, connection_state, output, perfdata>>

---------------------------------------------------------------------------
(* VCenterAPISession.__init__: POST /api/session *)

VCenterAPISession ==
    /\ pc = "session"
    /\ \E r \in Responses :
        /\ requests' = Append(requests, "POST /api/session")
        /\ resp' = r
        /\ IF r.err
           THEN /\ exit_plugin(3, [msg |-> "Connection error"], <<>>)
                /\ UNCHANGED authtoken
           ELSE IF r.status \in AuthOkStatus
           THEN /\ authtoken' = "set"
                /\ pc' = "query"
                /\ UNCHANGED <<stdout, exitcode>>
           ELSE /\ exit_plugin(3, [msg |-> "Error during API auth request",
                                   status |-> r.status], <<>>)
                /\ UNCHANGED authtoken
    /\ UNCHANGED <<mode, debug, data, fault>>
    /\ UNCHANGED scanVars
    /\ UNCHANGED foldVars

(* query_api_endpoint: GET /api/vcenter/{vm,host,datastore}; req.json() *)
(* either decodes the body into a listing or raises                      *)

Endpoint(m) ==
    CASE m = "vms" -> "GET /api/vcenter/vm"
      [] m = "hosts" -> "GET /api/vcenter/host"
      [] m = "datastores" -> "GET /api/vcenter/datastore"

query_api_endpoint ==
    /\ pc = "query"
    /\ \E r \in Responses :
        /\ requests' = Append(requests, Endpoint(mode))
        /\ resp' = r
        /\ IF r.err
           THEN /\ exit_plugin(3, [msg |-> "Connection error"], <<>>)
                /\ UNCHANGED <<data, fault>>
           ELSE IF r.status \in QueryErrorStatus
           THEN /\ exit_plugin(3, [msg |-> "Error during API request to /api/vcenter/vm",
                                   status |-> r.status], <<>>)
                /\ UNCHANGED <<data, fault>>
           ELSE \/ /\ \E listing \in Listings(mode) : data' = listing
                   /\ pc' = "debug"
                   /\ UNCHANGED <<stdout, exitcode, fault>>
                \/ /\ Uncaught("JSONDecodeError")
                   /\ UNCHANGED <<data, stdout>>
    /\ UNCHANGED <<mode, debug, authtoken>>
    /\ UNCHANGED scanVars
    /\ UNCHANGED foldVars

(* check_*: print the full API response in debug mode *)

(* variant: the debug branch prints nothing *)
DebugPrintSilent ==
    /\ pc = "debug"
    /\ pc' = "destroy"
    /\ UNCHANGED <<mode, debug, requests, resp, authtoken, data, stdout, exitcode, fault>>
    /\ UNCHANGED scanVars
    /\ UNCHANGED foldVars

(* variant: the check routine goes on without calling session.destroy() *)
DebugPrintNoDestroy ==
    /\ pc = "debug"
    /\ stdout' = IF debug THEN stdout \o DumpLines(mode, data) ELSE stdout
    /\ states' = IF mode = "vms" THEN [states EXCEPT !.total = Len(data)] ELSE states
    /\ pc' = "loop"
    /\ UNCHANGED <<mode, debug, requests, resp, authtoken, data, exitcode, fault>>
    /\ UNCHANGED <<idx, state, power_state, connection_state, output, perfdata>>
    /\ UNCHANGED foldVars

DebugPrint ==
    /\ pc = "debug"
    /\ stdout' = IF debug THEN stdout \o DumpLines(mode, data) ELSE stdout
    /\ pc' = "destroy"
    /\ UNCHANGED <<mode, debug, requests, resp, authtoken, data, exitcode, fault>>
    /\ UNCHANGED scanVars
    /\ UNCHANGED foldVars

(* VCenterAPISession.destroy: DELETE /api/session; on return the check    *)
(* routine initialises its accumulators                                   *)

destroy ==
    /\ pc = "destroy"
    /\ \E r \in Responses :
        /\ requests' = Append(requests, "DELETE /api/session")
        /\ resp' = r
        /\ IF r.err
           THEN /\ exit_plugin(3, [msg |-> "Connection error"], <<>>)
                /\ UNCHANGED states
           ELSE IF r.status \notin DestroyOkStatus
           THEN /\ exit_plugin(3, [msg |-> "Error during token invalidation request",
                                   status |-> r.status], <<>>)
                /\ UNCHANGED states
           ELSE /\ pc' = "loop"
                /\ states' = IF mode = "vms"
                             THEN [states EXCEPT !.total = Len(data)]
                             ELSE states
                /\ UNCHANGED <<stdout, exitcode>>
    /\ UNCHANGED <<mode, debug, authtoken, data, fault>>
    /\ UNCHANGED <<idx, state, power_state, connection_state, output, perfdata>>
    /\ UNCHANGED foldVars

---------------------------------------------------------------------------
(* check_vms: one pass of the for loop, then output and exit *)

check_vms_loop ==
    /\ pc = "loop"
    /\ mode = "vms"
    /\ idx < Len(data)
    /\ LET element == data[idx + 1]
           s1 == IF element.power_state = "POWERED_ON"
                 THEN [states EXCEPT !.on = @ + 1] ELSE states
           s2 == IF element.power_state = "POWERED_OFF"
                 THEN [s1 EXCEPT !.off = @ + 1] ELSE s1
           s3 == IF element.power_state = "SUSPENDED"
                 THEN [s2 EXCEPT !.suspended = @ + 1] ELSE s2
       IN states' = s3
    /\ idx' = idx + 1
    /\ UNCHANGED <<mode, debug, pc, requests, resp, authtoken, data, stdout, exitcode, fault>>
    /\ UNCHANGED <<state, power_state, connection_state, output, perfdata>>
    /\ UNCHANGED foldVars

VmPerfdata ==
    <<[label |-> "vm_on", value |-> states.on, min |-> <<0>>, max |-> <<states.total>>],
      [label |-> "vm_off", value |-> states.off, min |-> <<0>>, max |-> <<states.total>>],
      [label |-> "vm_suspended", value |-> states.suspended, min |-> <<0>>,
       max |-> <<states.total>>],
      [label |-> "vm_total", value |-> states.total, min |-> <<>>, max |-> <<>>]>>

check_vms_exit ==
    /\ pc = "loop"
    /\ mode = "vms"
    /\ idx = Len(data)
    /\ exit_plugin(0, states, VmPerfdata)
    /\ UNCHANGED <<mode, debug, requests, resp, authtoken, data, fault>>
    /\ UNCHANGED scanVars
    /\ UNCHANGED foldVars

---------------------------------------------------------------------------
(* check_hosts: one pass of the for loop, then output and exit *)

HostConnection(element, cs) ==
    IF element.connection_state = "CONNECTED"
    THEN [cs EXCEPT !.connected = @ + 1]
    ELSE IF element.connection_state = "DISCONNECTED"
    THEN [cs EXCEPT !.disconnected = @ + 1,
                    !.hosts_discon_list = Append(@, element.name)]
    ELSE IF element.connection_state = "NOT_RESPONDING"
    THEN [cs EXCEPT !.notresponding = @ + 1,
                    !.hosts_notresp_list = Append(@, element.name)]
    ELSE cs

HostPower(element, ps) ==
    IF element.power_state = "POWERED_ON"
    THEN [ps EXCEPT !.on = @ + 1]
    ELSE IF element.power_state = "POWERED_OFF"
    THEN [ps EXCEPT !.off = @ + 1, !.hosts_off_list = Append(@, element.name)]
    ELSE IF element.power_state = "STANDBY"
    THEN [ps EXCEPT !.standby = @ + 1, !.hosts_standby_list = Append(@, element.name)]
    ELSE ps

(* the running state after the connection_state branch of one element *)
(* variant: DISCONNECTED raising the state as well *)
HostStateAlsoDisconnected(element, cur) ==
    IF element.connection_state \in {"NOT_RESPONDING", "DISCONNECTED"}
    THEN set_state(1, cur) ELSE cur

HostState(element, cur) ==
    IF element.connection_state = "NOT_RESPONDING" THEN set_state(1, cur) ELSE cur

(* whether the loop body goes on to the power_state branch *)
(* variant: the continue missing *)
HostReadsPowerAlways(element) == TRUE

HostReadsPower(element) == element.connection_state # "NOT_RESPONDING"

check_hosts_loop ==
    /\ pc = "loop"
    /\ mode = "hosts"
    /\ idx < Len(data)
    /\ LET element == data[idx + 1]
       IN /\ connection_state' = HostConnection(element, connection_state)
          /\ state' = HostState(element, state)
          /\ power_state' = IF HostReadsPower(element)
                            THEN HostPower(element, power_state)
                            ELSE power_state
    /\ idx' = idx + 1
    /\ UNCHANGED <<mode, debug, pc, requests, resp, authtoken, data, stdout, exitcode, fault>>
    /\ UNCHANGED <<states, output, perfdata>>
    /\ UNCHANGED foldVars

HostOutput ==
    [total |-> Len(data),
     on |-> power_state.on,
     off |-> power_state.off, hosts_off |-> power_state.hosts_off_list,
     standby |-> power_state.standby, hosts_standby |-> power_state.hosts_standby_list,
     connected |-> connection_state.connected,
     disconnected |-> connection_state.disconnected,
     hosts_discon |-> connection_state.hosts_discon_list,
     notresponding |-> connection_state.notresponding,
     hosts_notresp |-> connection_state.hosts_notresp_list]

HostToken(l, v) == [label |-> l, value |-> v, min |-> <<0>>, max |-> <<Len(data)>>]

HostPerfdata ==
    <<HostToken("power_on", power_state.on),
      HostToken("power_off", power_state.off),
      HostToken("power_standby", power_state.standby),
      HostToken("conn_connected", connection_state.connected),
      HostToken("conn_disconnected", connection_state.disconnected),
      HostToken("conn_notresp", connection_state.notresponding)>>

check_hosts_exit ==
    /\ pc = "loop"
    /\ mode = "hosts"
    /\ idx = Len(data)
    /\ exit_plugin(state, HostOutput, HostPerfdata)
    /\ UNCHANGED <<mode, debug, requests, resp, authtoken, data, fault>>
    /\ UNCHANGED scanVars
    /\ UNCHANGED foldVars

---------------------------------------------------------------------------
(* check_datastores: one pass of the for loop, then exit *)

(* n / d rounded to the nearest integer, halves to the even neighbour;     *)
(* UsedPctTruncated below is the variant that truncates instead            *)
RoundHalfEven(n, d) ==
    LET q == n \div d
        r == n % d
    IN IF 2 * r > d \/ (2 * r = d /\ q % 2 = 1) THEN q + 1 ELSE q

(* round((used_bytes / capacity) * 100, 2), in hundredths of a percent.    *)
(* Python rounds the double nearest the quotient; that is the exact        *)
(* quotient rounded to the nearest hundredth whenever the quotient is not  *)
(* exactly halfway between two hundredths (possible only when capacity is *)
(* a multiple of 32), where the double decides; DatastoreSizes holds no    *)
(* such pair.                                                              *)
UsedPctTruncated(capacity, free_space) == ((capacity - free_space) * 10000) \div capacity

UsedPct(capacity, free_space) == RoundHalfEven((capacity - free_space) * 10000, capacity)

(* used_pct >= 97 *)
(* variant: > instead of >= *)
OverThresholdStrict(used_pct) == used_pct > 9700

OverThreshold(used_pct) == used_pct >= 9700

check_datastores_loop ==
    /\ pc = "loop"
    /\ mode = "datastores"
    /\ idx < Len(data)
    /\ LET element == data[idx + 1]
       IN IF element.capacity = 0
          THEN /\ Uncaught("ZeroDivisionError")
               /\ UNCHANGED <<idx, state, output, perfdata>>
          ELSE LET used_pct == UsedPct(element.capacity, element.free_space)
               IN /\ state' = IF OverThreshold(used_pct) THEN set_state(1, state) ELSE state
                  /\ output' = IF OverThreshold(used_pct)
                               THEN Append(output, [name |-> element.name,
                                                    used_pct |-> used_pct])
                               ELSE output
                  /\ perfdata' = Append(perfdata,
                                        [label |-> element.name, value |-> used_pct,
                                         min |-> <<0>>, max |-> <<100>>])
                  /\ idx' = idx + 1
                  /\ UNCHANGED <<pc, exitcode, fault>>
    /\ UNCHANGED <<mode, debug, requests, resp, authtoken, data, stdout>>
    /\ UNCHANGED <<states, power_state, connection_state>>
    /\ UNCHANGED foldVars

check_datastores_exit ==
    /\ pc = "loop"
    /\ mode = "datastores"
    /\ idx = Len(data)
    /\ exit_plugin(state, [total |-> Len(data), over |-> output], perfdata)
    /\ UNCHANGED <<mode, debug, requests, resp, authtoken, data, fault>>
    /\ UNCHANGED scanVars
    /\ UNCHANGED foldVars

---------------------------------------------------------------------------
(* main: one run of the plugin *)

Next ==
    \/ VCenterAPISession
    \/ query_api_endpoint
    \/ DebugPrint
    \/ destroy
    \/ check_vms_loop
    \/ check_vms_exit
    \/ check_hosts_loop
    \/ check_hosts_exit
    \/ check_datastores_loop
    \/ check_datastores_exit

Spec == Init /\ [][Next]_vars

---------------------------------------------------------------------------
(* set_state applied to every pair and, nested both ways, to every triple *)

InitCombine ==
    /\ mode = "hosts"
    /\ debug = FALSE
    /\ InitSession
    /\ cargs \in Severity \X Severity \X Severity
    /\ inner = <<>>
    /\ outer = <<>>

ApplyInner ==
    /\ inner = <<>>
    /\ inner' = <<set_state(cargs[1], cargs[2]),
                  set_state(cargs[2], cargs[3]),
                  set_state(cargs[1], cargs[3])>>
    /\ UNCHANGED <<cargs, outer>>
    /\ UNCHANGED sessionVars

ApplyOuter ==
    /\ inner # <<>>
    /\ outer = <<>>
    /\ outer' = <<set_state(inner[1], cargs[3]),
                  set_state(cargs[1], inner[2]),
                  set_state(cargs[2], inner[3])>>
    /\ UNCHANGED <<cargs, inner>>
    /\ UNCHANGED sessionVars

NextCombine == ApplyInner \/ ApplyOuter

SpecCombine == InitCombine /\ [][NextCombine]_vars

---------------------------------------------------------------------------
(* Vocabulary of the properties *)

Terminated == pc \in {"done", "crashed"}

LastLine == stdout[Len(stdout)]

LastRequest == requests[Len(requests)]

RequestPlan == <<"POST /api/session", Endpoint(mode), "DELETE /api/session">>

IsPrefix(s, t) == Len(s) <= Len(t) /\ \A i \in 1..Len(s) : s[i] = t[i]

TeardownAnswered == Len(requests) = 3

TeardownOk == TeardownAnswered /\ ~resp.err /\ resp.status \in {200, 201, 204}

Abs(x) == IF x < 0 THEN -x ELSE x

ExitedUnknown ==
    /\ pc = "done"
    /\ exitcode = <<3>>
    /\ fault = "none"
    /\ Len(stdout) >= 1
    /\ LastLine.kind = "status"
    /\ LastLine.level = "UNKNOWN"
    /\ LastLine.perfdata = <<>>

NothingClassified ==
    /\ idx = 0
    /\ state = 0
    /\ states = InitStates
    /\ power_state = InitPowerState
    /\ connection_state = InitConnectionState
    /\ output = <<>>
    /\ perfdata = <<>>

---------------------------------------------------------------------------
(* C1: the requests issued are a prefix of <authenticate, fetch, teardown>, *)
(* each issued at most once; the fetch is issued only once the token has    *)
(* been set by a 200/201 authentication answer; the teardown is issued only *)
(* after the fetch came back without transport failure and with a status    *)
(* outside {400,401,403,500,503}; nothing is issued after the teardown.     *)
C1_RequestOrder ==
    /\ [](/\ IsPrefix(requests, RequestPlan)
          /\ (Len(requests) >= 2 => authtoken = "set"))
    /\ [][requests' # requests =>
            /\ Len(requests') = Len(requests) + 1
            /\ (Len(requests') = 2 =>
                    /\ authtoken = "set"
                    /\ ~resp.err
                    /\ resp.status \in {200, 201})
            /\ (Len(requests') = 3 =>
                    /\ LastRequest = Endpoint(mode)
                    /\ ~resp.err
                    /\ resp.status \notin {400, 401, 403, 500, 503}
                    /\ fault = "none")]_vars

C1_Witness == pc = "done" /\ requests = RequestPlan /\ exitcode = <<0>>

(* C2: a fatal answer at any HTTP step ends the run at once with exit code *)
(* 3 and an UNKNOWN line without perfdata; no request and no classification *)
(* follows; a transport failure at authentication leaves one request.      *)
FatalAnswer ==
    /\ requests # <<>>
    /\ \/ resp.err
       \/ LastRequest = "POST /api/session" /\ resp.status \notin {200, 201}
       \/ LastRequest = Endpoint(mode) /\ resp.status \in {400, 401, 403, 500, 503}
       \/ LastRequest = "DELETE /api/session" /\ resp.status \notin {200, 201, 204}

C2_FatalEndsRun ==
    FatalAnswer =>
        /\ ExitedUnknown
        /\ NothingClassified
        /\ \A i \in 1..Len(stdout) : stdout[i].kind = "status" => i = Len(stdout)
        /\ (LastRequest = "POST /api/session" => requests = <<"POST /api/session">>)

C2_Witness ==
    /\ requests = RequestPlan
    /\ ~resp.err
    /\ resp.status = 503
    /\ ExitedUnknown
    /\ debug
    /\ Len(data) = 2

(* C3: UNKNOWN never downgrades WARNING or CRITICAL: set_state(UNKNOWN, *)
(* cur) = cur for cur in {WARNING, CRITICAL}; set_state(UNKNOWN, OK) =   *)
(* UNKNOWN; set_state(CRITICAL, x) = CRITICAL for every x.               *)
C3_UnknownNeverDowngrades ==
    inner # <<>> =>
        LET new == cargs[1]
            cur == cargs[2]
            res == inner[1]
        IN /\ (new = UNKNOWN /\ cur \in {WARNING, CRITICAL} => res = cur)
           /\ (new = UNKNOWN /\ cur = OK => res = UNKNOWN)
           /\ (new = CRITICAL => res = CRITICAL)

(* C4: set_state is idempotent and associative, and folding two severities *)
(* into a running state gives the same result in either order.            *)
C4_AssociativeIdempotent ==
    /\ (inner # <<>> /\ cargs[1] = cargs[2] => inner[1] = cargs[1])
    /\ (outer # <<>> => outer[1] = outer[2] /\ outer[2] = outer[3])

---------------------------------------------------------------------------
(* C5: host check, fetch and teardown succeeded: after any scanned prefix *)
(* the running severity is WARNING exactly when the prefix holds a        *)
(* NOT_RESPONDING host and OK otherwise, so it never decreases, does not  *)
(* depend on the order and is raised by no power_state and not by         *)
(* DISCONNECTED; the run exits with that severity of the whole listing.   *)
NotRespondingIn(n) == \E i \in 1..n : data[i].connection_state = "NOT_RESPONDING"

C5_HostSeverity ==
    (mode = "hosts" /\ TeardownOk) =>
        /\ idx <= Len(data)
        /\ state = IF NotRespondingIn(idx) THEN WARNING ELSE OK
        /\ Terminated =>
              /\ pc = "done"
              /\ exitcode = <<IF NotRespondingIn(Len(data)) THEN WARNING ELSE OK>>
              /\ LastLine.kind = "status"
              /\ LastLine.level = IF NotRespondingIn(Len(data)) THEN "WARNING" ELSE "OK"

C5_Witness ==
    /\ mode = "hosts"
    /\ pc = "done"
    /\ exitcode = <<WARNING>>
    /\ Len(data) = 2
    /\ data[1].connection_state = "NOT_RESPONDING"
    /\ data[2].connection_state = "DISCONNECTED"
    /\ data[2].power_state = "POWERED_OFF"

(* C6: host check: a NOT_RESPONDING host adds to no power counter: after  *)
(* any scanned prefix power_on + power_off + power_standby <= scanned -   *)
(* notresponding, the connection counters sum to at most scanned, every   *)
(* name list is as long as its counter, and the six perfdata values       *)
(* reported at the end lie in 0..total.                                   *)
C6_HostCounters ==
    (mode = "hosts" /\ TeardownOk) =>
        /\ power_state.on + power_state.off + power_state.standby
              <= idx - connection_state.notresponding
        /\ connection_state.connected + connection_state.disconnected
              + connection_state.notresponding <= idx
        /\ connection_state.notresponding =
              Cardinality({i \in 1..idx : data[i].connection_state = "NOT_RESPONDING"})
        /\ Len(power_state.hosts_off_list) = power_state.off
        /\ Len(power_state.hosts_standby_list) = power_state.standby
        /\ Len(connection_state.hosts_discon_list) = connection_state.disconnected
        /\ Len(connection_state.hosts_notresp_list) = connection_state.notresponding
        /\ pc = "done" =>
              /\ Len(LastLine.perfdata) = 6
              /\ \A k \in 1..6 :
                    /\ LastLine.perfdata[k].value \in 0..Len(data)
                    /\ LastLine.perfdata[k].min = <<0>>
                    /\ LastLine.perfdata[k].max = <<Len(data)>>

C6_Witness ==
    /\ mode = "hosts"
    /\ pc = "done"
    /\ Len(data) = 2
    /\ data[1].connection_state = "NOT_RESPONDING"
    /\ data[1].power_state = "POWERED_OFF"
    /\ data[2].connection_state = "CONNECTED"
    /\ data[2].power_state = "STANDBY"
    /\ exitcode = <<WARNING>>
    /\ LastLine.perfdata[2].value = 0
    /\ LastLine.perfdata[3].value = 1
    /\ LastLine.perfdata[6].value = 1

---------------------------------------------------------------------------
(* C7: datastore check, every capacity > 0 and 0 <= free_space <=         *)
(* capacity, fetch and teardown succeeded: the severity is WARNING exactly *)
(* when some datastore has used_pct >= 97, used_pct being (capacity -      *)
(* free_space) / capacity * 100 rounded to two decimals, and OK otherwise; *)
(* the summary names exactly the breaching datastores and there is one     *)
(* perfdata token per datastore.                                           *)
WellFormedSizes ==
    \A i \in 1..Len(data) :
        data[i].capacity > 0 /\ 0 <= data[i].free_space /\ data[i].free_space <= data[i].capacity

(* q hundredths is the percentage used by e rounded to two decimals *)
IsRounded(q, e) ==
    2 * Abs(q * e.capacity - 10000 * (e.capacity - e.free_space)) <= e.capacity

Breaches(e) == \E q \in 9700..10000 : IsRounded(q, e)

BreachingIn(n) == {i \in 1..n : Breaches(data[i])}

C8_ZeroCapacityIsFatal ==
    (/\ mode = "datastores"
     /\ Terminated
     /\ TeardownAnswered
     /\ \E i \in 1..Len(data) : data[i].capacity = 0) => ExitedUnknown

====
